---- MODULE Spec2Model ----
(***************************************************************************)
(* Model of piper/http_server.py: the POST /synthesize handler, the        *)
(* process-wide loaded_models cache, the per-request temp files and the    *)
(* background cleanup of a delivered response.                             *)
(*                                                                         *)
(* synthesize is an `async def` with no await in its body, and every call  *)
(* it makes (PiperVoice.load, voice.synthesize, subprocess.run) blocks:    *)
(* from its first line to its return or raise it occupies the event loop   *)
(* of the single uvicorn process (uvicorn.run(app, ...), line 195).  The   *)
(* variable `running` is the request whose handler occupies the loop.  The *)
(* handler is cut at each blocking call, so that the states in which a     *)
(* call is in flight are states of the model.  The delivery of a           *)
(* FileResponse and its BackgroundTask happen after the handler returned;  *)
(* the task's function is synchronous, so it runs on a worker thread and   *)
(* interleaves with the handlers of other requests.                        *)
(***************************************************************************)
EXTENDS Integers, Sequences, FiniteSets, TLC

\* Number of requests the transport receives in one behaviour.
NumRequests == 2

Requests == 1..NumRequests

\* uuid4().hex values: as many as there are requests.
UIDs == 1..NumRequests

\* An id that does not tell requests apart: any value, used or not.
AnyId(used) == UIDs

\* line 117: uuid4() returns a value it has not returned before.  The values
\* are interchangeable tokens, so the one drawn is taken to be the least
\* unused one.
FreshIds(used) == { u \in UIDs \ used : \A v \in UIDs \ used : u <= v }

\* ---------------------------------------------------------------- strings
\* A string is a sequence of one-character strings.
Whitespace == {" "}

\* The raw `text` values a client sends.
RawTexts == { <<>>, <<" ">>, <<" ", "t", " ">> }

\* The raw `model_name` values a client sends.
RawNames == { <<" ">>, <<"a">>, <<" ", "a", " ">>, <<"b">> }

RECURSIVE LStrip(_)
LStrip(s) ==
    IF s = <<>> THEN s
    ELSE IF Head(s) \in Whitespace THEN LStrip(Tail(s)) ELSE s

RECURSIVE RStrip(_)
RStrip(s) ==
    IF s = <<>> THEN s
    ELSE IF s[Len(s)] \in Whitespace THEN RStrip(SubSeq(s, 1, Len(s) - 1)) ELSE s

StripNothing(s) == s

\* str.strip(): leading and trailing whitespace removed.
Strip(s) == RStrip(LStrip(s))

OnnxSuffix == <<".", "o", "n", "n", "x">>

\* line 74: data.model_name.strip() + ".onnx"
NormalizeName(raw) == Strip(raw) \o OnnxSuffix

\* Python truthiness of a str: `not s` is true of the empty string only.
Falsy(s) == Len(s) = 0

ModelNames == { NormalizeName(n) : n \in RawNames }

\* ------------------------------------------------------------ directories
\* args.data_dir: the default list, to which every --data-dir is appended
\* (argparse action="append" with a list default), here one extra directory.
ModelsDir == "models"
ExtraDir == "extra"
data_dir == << ModelsDir, ExtraDir >>

\* line 192-193: no --download-dir given, so the first data dir.
download_dir == data_dir[1]

Dirs == { data_dir[i] : i \in 1..Len(data_dir) }

NoPath == [dir |-> "none", name |-> <<>>]
NoVoice == [id |-> 0, path |-> NoPath, config |-> "None"]
NoResponse == [status |-> 0, detail |-> ""]
NoData == [text |-> <<>>, model_name |-> <<>>]

VARIABLES
    pc,             \* pc[r]: where request r is
    running,        \* the request whose handler occupies the event loop, 0 if none
    data,           \* data[r]: the SynthesizeModel body of r
    text,           \* text[r]: line 73
    model_name,     \* model_name[r]: line 74
    loaded_models,  \* line 26: model name -> voice
    assets,         \* assets[d]: the model files present in directory d
    model_path,     \* model_path[r]: lines 88, 100
    config_path,    \* config_path[r]: lines 100, 102
    voice,          \* voice[r]: line 107
    unique_id,      \* unique_id[r]: line 117, 0 before
    tmp,            \* the files present under /tmp: <<kind, unique_id>>
    idx,            \* idx[r]: position of cleanup_temp_files in file_paths
    response,       \* response[r]: what the transport got from the handler
    nextHandle,     \* number of voices PiperVoice.load has returned
    \* history of the run, read by the properties only
    calls,          \* calls[r]: the resolver, download and load calls r made
    failedStep,     \* failedStep[r]: the step whose failure ended r
    cachedAtStart,  \* cachedAtStart[r]: r's model was cached when r's handler began
    localAt,        \* localAt[r]: the data dirs holding r's asset at line 89
    loadCalls,      \* loadCalls[n]: invocations of PiperVoice.load for name n
    waited,         \* waited[r]: the steps at which another request's attempt to get
                    \* r's model failed while r was queued for the event loop
    usedIds,        \* the unique ids handed out
    ncalls          \* ncalls[r]: the calls of cleanup_temp_files on r's paths that returned

vars == << pc, running, data, text, model_name, loaded_models, assets,
           model_path, config_path, voice, unique_id, tmp, idx, response,
           nextHandle, calls, failedStep, cachedAtStart, localAt, loadCalls,
           waited, usedIds, ncalls >>

\* The name under which r looks its model up in loaded_models and stores
\* and takes its voice (lines 86, 105, 107).
CacheKey(r) == model_name[r]

\* The file name r looks for in the models directory (line 88).
AssetName(r) == model_name[r]

\* The voice name without the suffix of the model file.
DownloadNameNoSuffix(r) == Strip(data[r].model_name)

\* The name r gives to ensure_voice_exists and find_voice (lines 99-100).
DownloadName(r) == model_name[r]

\* line 86: model_name not in loaded_models, negated
NeverCached(n) == FALSE

InCache(n) == n \in DOMAIN loaded_models

\* line 88-89: the one path that is checked, in the fixed models directory
ExistsNowhere(n) == FALSE

ModelPathExists(n) == n \in assets[ModelsDir]

OutputPath(u) == << "synthesized", u >>
Output8khzPath(u) == << "synthesized_8khz", u >>

Init ==
    /\ pc = [r \in Requests |-> "idle"]
    /\ running = 0
    /\ data = [r \in Requests |-> NoData]
    /\ text = [r \in Requests |-> <<>>]
    /\ model_name = [r \in Requests |-> <<>>]
    /\ loaded_models = << >>
    /\ assets = [d \in Dirs |->
                   IF d = ModelsDir THEN { NormalizeName(<<"a">>) }
                   ELSE { NormalizeName(<<"b">>) }]
    /\ model_path = [r \in Requests |-> NoPath]
    /\ config_path = [r \in Requests |-> "None"]
    /\ voice = [r \in Requests |-> NoVoice]
    /\ unique_id = [r \in Requests |-> 0]
    /\ tmp = {}
    /\ idx = [r \in Requests |-> 0]
    /\ response = [r \in Requests |-> NoResponse]
    /\ nextHandle = 0
    /\ calls = [r \in Requests |-> {}]
    /\ failedStep = [r \in Requests |-> "none"]
    /\ cachedAtStart = [r \in Requests |-> FALSE]
    /\ localAt = [r \in Requests |-> {}]
    /\ loadCalls = [n \in ModelNames |-> 0]
    /\ waited = [r \in Requests |-> {}]
    /\ usedIds = {}
    /\ ncalls = [r \in Requests |-> 0]

\* The transport receives a request; its handler is not yet scheduled.
\* Requests are numbered in the order in which they arrive.
Arrive(r) ==
    /\ pc[r] = "idle"
    /\ \A q \in Requests : q < r => pc[q] # "idle"
    /\ \E t \in RawTexts, m \in RawNames :
         data' = [data EXCEPT ![r] = [text |-> t, model_name |-> m]]
    /\ pc' = [pc EXCEPT ![r] = "pending"]
    /\ UNCHANGED << running, text, model_name, loaded_models, assets,
                    model_path, config_path, voice, unique_id, tmp, idx,
                    response, nextHandle, calls, failedStep, cachedAtStart,
                    localAt, loadCalls, waited, usedIds, ncalls >>

\* The steps at which a model is resolved, downloaded and loaded (lines 88-105).
ResolveSteps == { "get_voices", "ensure_voice_exists", "find_voice", "load" }

\* An exception leaves the handler: r ends with the response of `status` and
\* `detail`, and the event loop is free again.
Raise(r, status, detail, step) ==
    /\ pc' = [pc EXCEPT ![r] = "done"]
    /\ response' = [response EXCEPT ![r] = [status |-> status, detail |-> detail]]
    /\ failedStep' = [failedStep EXCEPT ![r] = step]
    /\ running' = 0

\* Lines 86-105 are outside every try: an exception of the resolver, the
\* download functions or PiperVoice.load leaves synthesize as it is, and the
\* server answers 500 Internal Server Error.
RaiseUnhandled(r, step) ==
    /\ Raise(r, 500, "Internal Server Error", step)
    /\ waited' = [q \in Requests |->
                    IF /\ pc[q] = "pending"
                       /\ NormalizeName(data[q].model_name) = model_name[r]
                    THEN waited[q] \cup {step}
                    ELSE waited[q]]

\* A handler that draws the unique id of its temp files before it validates.
BeginAllocatesFirst(r) ==
    /\ pc[r] = "pending"
    /\ running = 0
    /\ text' = [text EXCEPT ![r] = Strip(data[r].text)]
    /\ model_name' = [model_name EXCEPT ![r] = NormalizeName(data[r].model_name)]
    /\ cachedAtStart' = [cachedAtStart EXCEPT ![r] =
                            model_name'[r] \in DOMAIN loaded_models]
    /\ IF Falsy(text'[r])
       THEN Raise(r, 400, "No text provided", "text")
       ELSE IF Falsy(model_name'[r])
       THEN Raise(r, 400, "No model name provided", "model_name")
       ELSE /\ pc' = [pc EXCEPT ![r] = "check_cache"]
            /\ running' = r
            /\ UNCHANGED << response, failedStep >>
    /\ \E u \in FreshIds(usedIds) :
         /\ unique_id' = [unique_id EXCEPT ![r] = u]
         /\ usedIds' = usedIds \cup {u}
    /\ UNCHANGED << data, loaded_models, assets, model_path, config_path, voice,
                    tmp, idx, nextHandle, calls, localAt, loadCalls,
                    waited, ncalls >>

\* lines 71-83: the handler starts when the event loop is free.
Begin(r) ==
    /\ pc[r] = "pending"
    /\ running = 0
    /\ text' = [text EXCEPT ![r] = Strip(data[r].text)]
    /\ model_name' = [model_name EXCEPT ![r] = NormalizeName(data[r].model_name)]
    /\ cachedAtStart' = [cachedAtStart EXCEPT ![r] =
                            model_name'[r] \in DOMAIN loaded_models]
    /\ IF Falsy(text'[r])
       THEN Raise(r, 400, "No text provided", "text")
       ELSE IF Falsy(model_name'[r])
       THEN Raise(r, 400, "No model name provided", "model_name")
       ELSE /\ pc' = [pc EXCEPT ![r] = "check_cache"]
            /\ running' = r
            /\ UNCHANGED << response, failedStep >>
    /\ UNCHANGED << data, loaded_models, assets, model_path, config_path, voice,
                    unique_id, tmp, idx, nextHandle, calls, localAt, loadCalls,
                    waited, usedIds, ncalls >>

\* A handler that opens its output file before it has its voice.
CheckCacheOpensFile(r) ==
    /\ pc[r] = "check_cache"
    /\ running = r
    /\ pc' = [pc EXCEPT ![r] =
                IF InCache(CacheKey(r)) THEN "voice" ELSE "path_exists"]
    /\ \E u \in FreshIds(usedIds) :
         /\ unique_id' = [unique_id EXCEPT ![r] = u]
         /\ usedIds' = usedIds \cup {u}
         /\ tmp' = tmp \cup { OutputPath(u) }
    /\ UNCHANGED << running, data, text, model_name, loaded_models, assets,
                    model_path, config_path, voice, idx,
                    response, nextHandle, calls, failedStep, cachedAtStart,
                    localAt, loadCalls, waited, ncalls >>

\* line 86
CheckCache(r) ==
    /\ pc[r] = "check_cache"
    /\ running = r
    /\ pc' = [pc EXCEPT ![r] =
                IF InCache(CacheKey(r)) THEN "voice" ELSE "path_exists"]
    /\ UNCHANGED << running, data, text, model_name, loaded_models, assets,
                    model_path, config_path, voice, unique_id, tmp, idx,
                    response, nextHandle, calls, failedStep, cachedAtStart,
                    localAt, loadCalls, waited, usedIds, ncalls >>

\* lines 87-89, 101-102
PathExists(r) ==
    /\ pc[r] = "path_exists"
    /\ running = r
    /\ calls' = [calls EXCEPT ![r] = @ \cup {"exists"}]
    /\ localAt' = [localAt EXCEPT ![r] =
                     { d \in Dirs : AssetName(r) \in assets[d] }]
    /\ model_path' = [model_path EXCEPT ![r] =
                        [dir |-> ModelsDir, name |-> AssetName(r)]]
    /\ config_path' = [config_path EXCEPT ![r] = "None"]
    /\ pc' = [pc EXCEPT ![r] =
                IF ModelPathExists(AssetName(r)) THEN "load" ELSE "get_voices"]
    /\ UNCHANGED << running, data, text, model_name, loaded_models, assets,
                    voice, unique_id, tmp, idx, response, nextHandle,
                    failedStep, cachedAtStart, loadCalls, waited, usedIds, ncalls >>

\* lines 90-98: the catalog is fetched and its aliases added, or get_voices raises.
GetVoices(r) ==
    /\ pc[r] = "get_voices"
    /\ running = r
    /\ calls' = [calls EXCEPT ![r] = @ \cup {"get_voices"}]
    /\ \/ /\ pc' = [pc EXCEPT ![r] = "ensure_voice_exists"]
          /\ UNCHANGED << running, response, failedStep, waited >>
       \/ RaiseUnhandled(r, "get_voices")
    /\ UNCHANGED << data, text, model_name, loaded_models, assets, model_path,
                    config_path, voice, unique_id, tmp, idx, nextHandle,
                    cachedAtStart, localAt, loadCalls, usedIds, ncalls >>

\* line 99: the voice is found present, or downloaded into download_dir, or
\* ensure_voice_exists raises.
EnsureVoiceExists(r) ==
    /\ pc[r] = "ensure_voice_exists"
    /\ running = r
    /\ calls' = [calls EXCEPT ![r] = @ \cup {"ensure_voice_exists"}]
    /\ \/ /\ pc' = [pc EXCEPT ![r] = "find_voice"]
          /\ \/ UNCHANGED assets
             \/ assets' = [assets EXCEPT ![download_dir] = @ \cup {DownloadName(r)}]
          /\ UNCHANGED << running, response, failedStep, waited >>
       \/ /\ RaiseUnhandled(r, "ensure_voice_exists")
          /\ UNCHANGED assets
    /\ UNCHANGED << data, text, model_name, loaded_models, model_path,
                    config_path, voice, unique_id, tmp, idx, nextHandle,
                    cachedAtStart, localAt, loadCalls, usedIds, ncalls >>

\* line 100: find_voice returns the model and its config from one of the data
\* dirs that hold the model, or raises.
FindVoice(r) ==
    /\ pc[r] = "find_voice"
    /\ running = r
    /\ calls' = [calls EXCEPT ![r] = @ \cup {"find_voice"}]
    /\ \/ /\ \E d \in Dirs :
               /\ DownloadName(r) \in assets[d]
               /\ model_path' = [model_path EXCEPT ![r] =
                                   [dir |-> d, name |-> DownloadName(r)]]
          /\ config_path' = [config_path EXCEPT ![r] = "json"]
          /\ pc' = [pc EXCEPT ![r] = "load"]
          /\ UNCHANGED << running, response, failedStep, waited >>
       \/ /\ RaiseUnhandled(r, "find_voice")
          /\ UNCHANGED << model_path, config_path >>
    /\ UNCHANGED << data, text, model_name, loaded_models, assets, voice,
                    unique_id, tmp, idx, nextHandle, cachedAtStart, localAt,
                    loadCalls, usedIds, ncalls >>

\* A load that fails and leaves its unusable voice in the cache.
LoadKeepsFailed(r) ==
    /\ pc[r] = "load"
    /\ running = r
    /\ calls' = [calls EXCEPT ![r] = @ \cup {"load"}]
    /\ loadCalls' = [loadCalls EXCEPT ![model_name[r]] = @ + 1]
    /\ \/ /\ nextHandle' = nextHandle + 1
          /\ loaded_models' =
               (model_name[r] :> [id |-> nextHandle', path |-> model_path[r],
                                  config |-> config_path[r]]) @@ loaded_models
          /\ pc' = [pc EXCEPT ![r] = "voice"]
          /\ UNCHANGED << running, response, failedStep, waited >>
       \/ /\ RaiseUnhandled(r, "load")
          /\ loaded_models' = (model_name[r] :> NoVoice) @@ loaded_models
          /\ UNCHANGED nextHandle
    /\ UNCHANGED << data, text, model_name, assets, model_path, config_path,
                    voice, unique_id, tmp, idx, cachedAtStart, localAt, usedIds, ncalls >>

\* lines 104-105: PiperVoice.load returns a new voice, which is stored under
\* the model's name, or raises, and then nothing is stored.
Load(r) ==
    /\ pc[r] = "load"
    /\ running = r
    /\ calls' = [calls EXCEPT ![r] = @ \cup {"load"}]
    /\ loadCalls' = [loadCalls EXCEPT ![CacheKey(r)] = @ + 1]
    /\ \/ /\ nextHandle' = nextHandle + 1
          /\ loaded_models' =
               (CacheKey(r) :> [id |-> nextHandle', path |-> model_path[r],
                                  config |-> config_path[r]]) @@ loaded_models
          /\ pc' = [pc EXCEPT ![r] = "voice"]
          /\ UNCHANGED << running, response, failedStep, waited >>
       \/ /\ RaiseUnhandled(r, "load")
          /\ UNCHANGED << loaded_models, nextHandle >>
    /\ UNCHANGED << data, text, model_name, assets, model_path, config_path,
                    voice, unique_id, tmp, idx, cachedAtStart, localAt, usedIds, ncalls >>

\* lines 107-119
Voice(r) ==
    /\ pc[r] = "voice"
    /\ running = r
    /\ voice' = [voice EXCEPT ![r] = loaded_models[CacheKey(r)]]
    /\ \E u \in FreshIds(usedIds) :
         /\ unique_id' = [unique_id EXCEPT ![r] = u]
         /\ usedIds' = usedIds \cup {u}
    /\ pc' = [pc EXCEPT ![r] = "wave_open"]
    /\ UNCHANGED << running, data, text, model_name, loaded_models, assets,
                    model_path, config_path, tmp, idx, response, nextHandle,
                    calls, failedStep, cachedAtStart, localAt, loadCalls,
                    waited, ncalls >>

\* line 124: wave.open(output_path, "wb") creates the file, or raises.
WaveOpen(r) ==
    /\ pc[r] = "wave_open"
    /\ running = r
    /\ \/ /\ tmp' = tmp \cup { OutputPath(unique_id[r]) }
          /\ pc' = [pc EXCEPT ![r] = "synthesize"]
          /\ UNCHANGED << running, response, failedStep >>
       \/ /\ Raise(r, 500, "Error during synthesis", "wave_open")
          /\ UNCHANGED tmp
    /\ UNCHANGED << data, text, model_name, loaded_models, assets, model_path,
                    config_path, voice, unique_id, idx, nextHandle, calls,
                    cachedAtStart, localAt, loadCalls, waited, usedIds, ncalls >>

\* A synthesis that is tried again whenever it fails.
SynthesizeRetries(r) ==
    /\ pc[r] = "synthesize"
    /\ running = r
    /\ \/ pc' = [pc EXCEPT ![r] = "ffmpeg"]
       \/ pc' = [pc EXCEPT ![r] = "wave_open"]
    /\ UNCHANGED << running, response, failedStep, data, text, model_name,
                    loaded_models, assets, model_path, config_path, voice,
                    unique_id, tmp, idx, nextHandle, calls, cachedAtStart,
                    localAt, loadCalls, waited, usedIds, ncalls >>

\* A synthesis whose failure drops the voice from the cache.
SynthesizeEvicts(r) ==
    /\ pc[r] = "synthesize"
    /\ running = r
    /\ \/ /\ pc' = [pc EXCEPT ![r] = "ffmpeg"]
          /\ UNCHANGED << running, response, failedStep, loaded_models >>
       \/ /\ Raise(r, 500, "Error during synthesis", "synthesize")
          /\ loaded_models' = [n \in DOMAIN loaded_models \ {model_name[r]} |->
                                 loaded_models[n]]
    /\ UNCHANGED << data, text, model_name, assets, model_path,
                    config_path, voice, unique_id, tmp, idx, nextHandle, calls,
                    cachedAtStart, localAt, loadCalls, waited, usedIds, ncalls >>

\* lines 125-126, 150-152: voice.synthesize writes the audio, or raises.
Synthesize(r) ==
    /\ pc[r] = "synthesize"
    /\ running = r
    /\ \/ /\ pc' = [pc EXCEPT ![r] = "ffmpeg"]
          /\ UNCHANGED << running, response, failedStep >>
       \/ Raise(r, 500, "Error during synthesis", "synthesize")
    /\ UNCHANGED << data, text, model_name, loaded_models, assets, model_path,
                    config_path, voice, unique_id, tmp, idx, nextHandle, calls,
                    cachedAtStart, localAt, loadCalls, waited, usedIds, ncalls >>

\* A conversion after which the temp files are removed before the response
\* is returned, instead of in its background task.
FfmpegCleansBeforeServing(r) ==
    /\ pc[r] = "ffmpeg"
    /\ running = r
    /\ \/ /\ tmp' = tmp \ { OutputPath(unique_id[r]), Output8khzPath(unique_id[r]) }
          /\ pc' = [pc EXCEPT ![r] = "responding"]
          /\ response' = [response EXCEPT ![r] =
                            [status |-> 200, detail |-> "synthesized_8khz.wav"]]
          /\ running' = 0
          /\ UNCHANGED failedStep
       \/ /\ Raise(r, 500, "Error during conversion to 8kHz", "ffmpeg_exit")
          /\ UNCHANGED tmp
       \/ /\ Raise(r, 500, "Error during synthesis", "ffmpeg_start")
          /\ UNCHANGED tmp
    /\ UNCHANGED << data, text, model_name, loaded_models, assets, model_path,
                    config_path, voice, unique_id, idx, nextHandle, calls,
                    cachedAtStart, localAt, loadCalls, waited, usedIds, ncalls >>

\* lines 128-152: subprocess.run(["ffmpeg", ...], check=True) returns and the
\* FileResponse is returned; or ffmpeg exits non-zero (CalledProcessError),
\* having written its output file or not; or ffmpeg cannot be started
\* (OSError, caught by `except Exception`).
Ffmpeg(r) ==
    /\ pc[r] = "ffmpeg"
    /\ running = r
    /\ \/ /\ tmp' = tmp \cup { Output8khzPath(unique_id[r]) }
          /\ pc' = [pc EXCEPT ![r] = "responding"]
          /\ response' = [response EXCEPT ![r] =
                            [status |-> 200, detail |-> "synthesized_8khz.wav"]]
          /\ running' = 0
          /\ UNCHANGED failedStep
       \/ /\ Raise(r, 500, "Error during conversion to 8kHz", "ffmpeg_exit")
          /\ \/ UNCHANGED tmp
             \/ tmp' = tmp \cup { Output8khzPath(unique_id[r]) }
       \/ /\ Raise(r, 500, "Error during synthesis", "ffmpeg_start")
          /\ UNCHANGED tmp
    /\ UNCHANGED << data, text, model_name, loaded_models, assets, model_path,
                    config_path, voice, unique_id, idx, nextHandle, calls,
                    cachedAtStart, localAt, loadCalls, waited, usedIds, ncalls >>

\* lines 139-146: the transport sends the file of the returned FileResponse,
\* then starts its background task.
Deliver(r) ==
    /\ pc[r] = "responding"
    /\ pc' = [pc EXCEPT ![r] = "background"]
    /\ idx' = [idx EXCEPT ![r] = 1]
    /\ UNCHANGED << running, data, text, model_name, loaded_models, assets,
                    model_path, config_path, voice, unique_id, tmp, response,
                    nextHandle, calls, failedStep, cachedAtStart, localAt,
                    loadCalls, waited, usedIds, ncalls >>

\* line 143: [output_path, output_8khz_path]
file_paths(r) == << OutputPath(unique_id[r]), Output8khzPath(unique_id[r]) >>

\* A check that finds every path present.
AlwaysExists(fs, p) == TRUE

\* line 156: file_path.exists()
Exists(fs, p) == p \in fs

\* lines 154-158: one turn of the loop of cleanup_temp_files.  os.remove of a
\* path that is not there raises FileNotFoundError, which leaves the loop and
\* the function; after the last path the function returns.
CleanupStep(r) ==
    /\ pc[r] = "background"
    /\ LET p == file_paths(r)[idx[r]] IN
         IF Exists(tmp, p) /\ p \notin tmp
         THEN /\ pc' = [pc EXCEPT ![r] = "task_failed"]
              /\ UNCHANGED << tmp, idx, ncalls >>
         ELSE /\ tmp' = IF Exists(tmp, p) THEN tmp \ {p} ELSE tmp
              /\ IF idx[r] < Len(file_paths(r))
                 THEN /\ idx' = [idx EXCEPT ![r] = @ + 1]
                      /\ UNCHANGED << pc, ncalls >>
                 ELSE /\ pc' = [pc EXCEPT ![r] = "done"]
                      /\ ncalls' = [ncalls EXCEPT ![r] = @ + 1]
                      /\ UNCHANGED idx
    /\ UNCHANGED << running, data, text, model_name, loaded_models, assets,
                    model_path, config_path, voice, unique_id, response,
                    nextHandle, calls, failedStep, cachedAtStart, localAt,
                    loadCalls, waited, usedIds >>

Next ==
    \E r \in Requests :
        \/ Arrive(r)
        \/ Begin(r)
        \/ CheckCache(r)
        \/ PathExists(r)
        \/ GetVoices(r)
        \/ EnsureVoiceExists(r)
        \/ FindVoice(r)
        \/ Load(r)
        \/ Voice(r)
        \/ WaveOpen(r)
        \/ Synthesize(r)
        \/ Ffmpeg(r)
        \/ Deliver(r)
        \/ CleanupStep(r)

Spec == Init /\ [][Next]_vars

\* ------------------------------------------------ a handler that goes on
\* The steps of r's handler, of the delivery of its response and of its
\* background task.  None of them waits for another request: a step that is
\* possible is a call that is running, and it returns or raises.
Proceed(r) ==
    \/ CheckCache(r)
    \/ PathExists(r)
    \/ GetVoices(r)
    \/ EnsureVoiceExists(r)
    \/ FindVoice(r)
    \/ Load(r)
    \/ Voice(r)
    \/ WaveOpen(r)
    \/ Synthesize(r)
    \/ Ffmpeg(r)
    \/ Deliver(r)
    \/ CleanupStep(r)

\* The engine, the download functions and ffmpeg each return or raise.
SpecFair == Init /\ [][Next]_vars /\ \A r \in Requests : WF_vars(Proceed(r))

\* ------------------------------------------- a removal that is refused
\* line 158: os.remove raises OSError for a file that exists (a permission
\* lost, a read-only mount).  Nothing in cleanup_temp_files catches it: the
\* loop is left, the remaining paths are not visited and the exception
\* leaves the background task.
RemoveFails(r) ==
    /\ pc[r] = "background"
    /\ Exists(tmp, file_paths(r)[idx[r]])
    /\ pc' = [pc EXCEPT ![r] = "task_failed"]
    /\ UNCHANGED << running, data, text, model_name, loaded_models, assets,
                    model_path, config_path, voice, unique_id, tmp, idx,
                    response, nextHandle, calls, failedStep, cachedAtStart,
                    localAt, loadCalls, waited, usedIds, ncalls >>

NextRm == Next \/ \E r \in Requests : RemoveFails(r)

\* The program on a file system that may refuse to remove a file.
SpecRm == Init /\ [][NextRm]_vars

\* ------------------------------- cleanup_temp_files called again and again
\* Number of calls of cleanup_temp_files on one list of paths.
MaxCleanupCalls == 3

AllPaths == { OutputPath(u) : u \in UIDs } \cup { Output8khzPath(u) : u \in UIDs }

\* cleanup_temp_files is about to be called on the two paths of each unique
\* id, of which any may exist and any may never have been created.
InitCleanup ==
    /\ pc = [r \in Requests |-> "background"]
    /\ idx = [r \in Requests |-> 1]
    /\ unique_id = [r \in Requests |-> r]
    /\ usedIds = UIDs
    /\ tmp \in SUBSET AllPaths
    /\ ncalls = [r \in Requests |-> 0]
    /\ running = 0
    /\ data = [r \in Requests |-> NoData]
    /\ text = [r \in Requests |-> <<>>]
    /\ model_name = [r \in Requests |-> <<>>]
    /\ loaded_models = << >>
    /\ assets = [d \in Dirs |-> {}]
    /\ model_path = [r \in Requests |-> NoPath]
    /\ config_path = [r \in Requests |-> "None"]
    /\ voice = [r \in Requests |-> NoVoice]
    /\ response = [r \in Requests |-> NoResponse]
    /\ nextHandle = 0
    /\ calls = [r \in Requests |-> {}]
    /\ failedStep = [r \in Requests |-> "none"]
    /\ cachedAtStart = [r \in Requests |-> FALSE]
    /\ localAt = [r \in Requests |-> {}]
    /\ loadCalls = [n \in ModelNames |-> 0]
    /\ waited = [r \in Requests |-> {}]

\* cleanup_temp_files is called once more on the same paths.
CallAgain(r) ==
    /\ pc[r] = "done"
    /\ ncalls[r] >= 1
    /\ ncalls[r] < MaxCleanupCalls
    /\ pc' = [pc EXCEPT ![r] = "background"]
    /\ idx' = [idx EXCEPT ![r] = 1]
    /\ UNCHANGED << running, data, text, model_name, loaded_models, assets,
                    model_path, config_path, voice, unique_id, tmp, response,
                    nextHandle, calls, failedStep, cachedAtStart, localAt,
                    loadCalls, waited, usedIds, ncalls >>

NextCleanup == \E r \in Requests : CleanupStep(r) \/ CallAgain(r)

SpecCleanup == InitCleanup /\ [][NextCleanup]_vars

\* ------------------------------------------------------------- properties
\* The category of a response: 400 is the client error of an invalid input
\* (lines 78, 81), the two details of the handled 500s name the conversion
\* (line 149) and the synthesis (line 152); the 500 of an exception nobody
\* caught names no category.
Category(resp) ==
    CASE resp.status = 400 -> "InvalidInput"
      [] resp.status = 500 /\ resp.detail = "Error during conversion to 8kHz"
           -> "PostProcessFailure"
      [] resp.status = 500 /\ resp.detail = "Error during synthesis"
           -> "EngineFailure"
      [] resp.status = 500 /\ resp.detail = "Internal Server Error"
           -> "Unhandled"
      [] OTHER -> "none"

\* A string that is empty after trimming: it holds nothing but whitespace.
AllWhitespace(s) == \A i \in 1..Len(s) : s[i] \in Whitespace

Started(r) == pc[r] \notin {"idle", "pending"}

DownloadCalls == { "get_voices", "ensure_voice_exists", "find_voice" }

FailedLoads(n) ==
    Cardinality({ r \in Requests : failedStep[r] = "load" /\ model_name[r] = n })

C2_NoTempFileLeft ==
    \A r \in Requests :
        pc[r] = "done" =>
            \A i \in 1..Len(file_paths(r)) : file_paths(r)[i] \notin tmp

\* C3: a request whose text holds nothing but whitespace ends with the client
\* error of an invalid input as soon as its handler has begun, whatever its
\* model name and whether or not that model is cached.
C3_EmptyTextInvalidInput ==
    \A r \in Requests :
        Started(r) /\ AllWhitespace(data[r].text) =>
            /\ pc[r] = "done"
            /\ response[r].status = 400
            /\ Category(response[r]) = "InvalidInput"

\* C3, witness: a whitespace-only text is rejected while its model is cached.
C3_Witness ==
    \E r \in Requests :
        /\ pc[r] = "done"
        /\ data[r].text = <<" ">>
        /\ NormalizeName(data[r].model_name) \in DOMAIN loaded_models
        /\ response[r].status = 400

\* C4, as stated: a request whose model name holds nothing but whitespace, with
\* a text that does not, ends with an invalid input and makes no cache lookup,
\* resolution, download or load.
C4_EmptyModelNameInvalidInput ==
    \A r \in Requests :
        /\ Started(r)
        /\ AllWhitespace(data[r].model_name)
        /\ ~AllWhitespace(data[r].text)
        => /\ pc[r] = "done"
           /\ Category(response[r]) = "InvalidInput"
           /\ calls[r] = {}

\* C5: a request whose model was cached when its handler began makes no
\* resolver, download or load call, and is never at one of those steps.
C5_CachedNoResolve ==
    \A r \in Requests :
        cachedAtStart[r] =>
            /\ calls[r] = {}
            /\ pc[r] \notin ({"path_exists"} \cup ResolveSteps)
            /\ failedStep[r] \notin ResolveSteps

\* C5, witness: a request for a cached model was answered with audio.
C5_Witness ==
    \E r \in Requests :
        /\ cachedAtStart[r]
        /\ ~Falsy(text[r])
        /\ response[r].status = 200
        /\ calls[r] = {}

C7_NoCrossModelSerialization ==
    \A a, b \in Requests :
        /\ pc[b] = "load"
        /\ pc[a] = "pending"
        /\ NormalizeName(data[a].model_name) # model_name[b]
        => ENABLED Begin(a)

\* C8, as amended: only the fixed models directory, the first data dir, is
\* checked for the asset.  When the asset is there it is loaded from there
\* with no config path and no download function is called; when it is not
\* there the catalog is fetched, also when another data dir holds the asset.
C8_ModelsDirHitNoDownload ==
    \A r \in Requests :
        "exists" \in calls[r] =>
            /\ ModelsDir \in localAt[r] =>
                 /\ calls[r] \cap DownloadCalls = {}
                 /\ config_path[r] = "None"
                 /\ model_path[r] = [dir |-> ModelsDir, name |-> model_name[r]]
                 /\ pc[r] \notin DownloadCalls
            /\ ModelsDir \notin localAt[r] =>
                 \/ pc[r] = "get_voices"
                 \/ "get_voices" \in calls[r]

\* C8, witness: an asset of the models directory was loaded with no config
\* path and no download call, and the request was answered with audio.
C8_Witness ==
    \E r \in Requests :
        /\ ModelsDir \in localAt[r]
        /\ calls[r] = {"exists", "load"}
        /\ voice[r].config = "None"
        /\ voice[r].path.dir = ModelsDir
        /\ response[r].status = 200

\* C8, as stated: when the asset exists in any one of the search directories,
\* no config path is used and no download function is called.
C8_AnyDirHitNoDownload ==
    \A r \in Requests :
        localAt[r] # {} =>
            /\ calls[r] \cap DownloadCalls = {}
            /\ config_path[r] = "None"

\* C9, as stated: every failure of the conversion, a non-zero exit of ffmpeg
\* or a failure to start it, ends the request with PostProcessFailure.
C9_PostProcessFailureTyped ==
    \A r \in Requests :
        failedStep[r] \in {"ffmpeg_exit", "ffmpeg_start"}
            => Category(response[r]) = "PostProcessFailure"

\* C10, as stated: a failure of resolution, download or load is reported as
\* ModelUnavailable, a failure of the engine's synthesize as EngineFailure.
C10_FailureCategoryMatchesStep ==
    \A r \in Requests :
        /\ failedStep[r] \in ResolveSteps
             => Category(response[r]) = "ModelUnavailable"
        /\ failedStep[r] = "synthesize"
             => Category(response[r]) = "EngineFailure"

UsesRaw(r) == pc[r] \in {"synthesize", "ffmpeg", "responding"}
Serves(r) == pc[r] = "responding"

\* C12: no two requests have the same unique id, so no two have a temp path
\* in common; and whatever the other requests and their cleanups do, the raw
\* file of a request is there while the request writes or converts it, and
\* both its files are there while its response is being served.
C12_TempFilesRequestScoped ==
    /\ \A r, q \in Requests :
         r # q /\ unique_id[r] # 0 /\ unique_id[q] # 0
            => unique_id[r] # unique_id[q]
    /\ \A r \in Requests :
         /\ UsesRaw(r) => OutputPath(unique_id[r]) \in tmp
         /\ Serves(r) => Output8khzPath(unique_id[r]) \in tmp

\* C12, witness: the cleanup of one request has removed its first file while
\* another request is writing, converting or serving its own.
C12_Witness ==
    \E r, q \in Requests :
        /\ pc[r] = "background"
        /\ idx[r] = 2
        /\ UsesRaw(q)
        /\ OutputPath(unique_id[q]) \in tmp
        /\ OutputPath(unique_id[r]) \notin tmp

\* C13: no step removes or replaces an entry of the cache: a name that is
\* cached stays cached, with the same voice.
C13_CacheOnlyGrows ==
    [][\A n \in DOMAIN loaded_models :
          /\ n \in DOMAIN loaded_models'
          /\ loaded_models'[n] = loaded_models[n]]_vars

\* C13, witness: a model was loaded by one request; a later request for it
\* failed, and the cache still maps the name to the voice of the first.
C13_Witness ==
    \E r, q \in Requests :
        /\ "load" \in calls[r]
        /\ voice[r] # NoVoice
        /\ cachedAtStart[q]
        /\ model_name[q] = model_name[r]
        /\ pc[q] = "done"
        /\ failedStep[q] \in {"synthesize", "ffmpeg_exit"}
        /\ loaded_models[model_name[r]] = voice[r]

\* C14: a request that ended with EngineFailure or PostProcessFailure leaves
\* its model cached with the voice it used, and a request for that model that
\* begins while it is cached makes no resolve or load call and uses that voice.
C14_FailureKeepsHandle ==
    \A r \in Requests :
        Category(response[r]) \in {"EngineFailure", "PostProcessFailure"} =>
            /\ model_name[r] \in DOMAIN loaded_models
            /\ loaded_models[model_name[r]] = voice[r]
            /\ \A q \in Requests :
                 q # r /\ cachedAtStart[q] /\ model_name[q] = model_name[r] =>
                    /\ calls[q] = {}
                    /\ voice[q] \in {NoVoice, voice[r]}

\* C14, witness: a request loaded a model and its synthesis failed; the next
\* request for the model used the same voice, without a call, and got audio.
C14_Witness ==
    \E r, q \in Requests :
        /\ "load" \in calls[r]
        /\ failedStep[r] = "synthesize"
        /\ Category(response[r]) = "EngineFailure"
        /\ cachedAtStart[q]
        /\ model_name[q] = model_name[r]
        /\ calls[q] = {}
        /\ voice[q] = voice[r]
        /\ response[q].status = 200

\* C15: while the response of a request is being served both its temp files
\* exist, and when the delivery has completed and the background task has
\* not yet made a step both are still there: nothing is removed before the
\* response is delivered.
C15_CleanupAfterDelivery ==
    \A r \in Requests :
        (Serves(r) \/ (pc[r] = "background" /\ idx[r] = 1 /\ ncalls[r] = 0))
        => /\ OutputPath(unique_id[r]) \in tmp
           /\ Output8khzPath(unique_id[r]) \in tmp

\* C15, witness: a response was delivered and then its two files were removed.
C15_Witness ==
    \E r \in Requests :
        /\ response[r].status = 200
        /\ pc[r] = "done"
        /\ ncalls[r] = 1
        /\ OutputPath(unique_id[r]) \notin tmp
        /\ Output8khzPath(unique_id[r]) \notin tmp

\* Two raw names that differ only in the whitespace around them.
SameTrimmed(s, t) == Strip(s) = Strip(t)

\* The one name of a request is the trimmed raw name with the suffix; every
\* cache key, every path that is loaded and every file the download puts in
\* place is named by it; requests whose raw names differ only in surrounding
\* whitespace have the same name and, once they synthesize, the same voice.
OneNormalizedName ==
    /\ \A r \in Requests :
         /\ Started(r) => model_name[r] = Strip(data[r].model_name) \o OnnxSuffix
         /\ model_path[r] # NoPath => model_path[r].name = model_name[r]
    /\ \A n \in DOMAIN loaded_models :
         n \in ModelNames /\ loaded_models[n].path.name = n
    /\ \A d \in Dirs : assets[d] \subseteq ModelNames
    /\ \A r, q \in Requests :
         /\ Started(r)
         /\ Started(q)
         /\ SameTrimmed(data[r].model_name, data[q].model_name)
         => /\ model_name[r] = model_name[q]
            /\ voice[r] # NoVoice /\ voice[q] # NoVoice => voice[r] = voice[q]

\* C16, as amended: the normalized name is computed once and used at every
\* lookup and download call, and raw names that differ only in surrounding
\* whitespace share one cache entry, for which at most one load succeeds.
C16_NormalizedOnceOneEntry ==
    /\ OneNormalizedName
    /\ \A n \in ModelNames : loadCalls[n] - FailedLoads(n) <= 1

\* C16, witness: the raw names "a" and " a " were served by one voice after
\* one load.
C16_Witness ==
    \E r, q \in Requests :
        /\ data[r].model_name = <<"a">>
        /\ data[q].model_name = <<" ", "a", " ">>
        /\ voice[r] # NoVoice
        /\ voice[q] = voice[r]
        /\ loadCalls[model_name[r]] = 1
        /\ DOMAIN loaded_models = { model_name[r] }

\* C16, as stated: the same, with at most one load caused by two raw names
\* that differ only in surrounding whitespace.
C16_NormalizedOnceOneLoad ==
    /\ OneNormalizedName
    /\ \A r, q \in Requests :
         /\ Started(r)
         /\ Started(q)
         /\ data[r].model_name # data[q].model_name
         /\ SameTrimmed(data[r].model_name, data[q].model_name)
         => loadCalls[model_name[r]] <= 1

\* C17, as stated: no exception leaves the cleanup, and a background task
\* that has ended has visited every path of its request, also when the
\* removal of an earlier one was refused.
C17_CleanupBestEffort ==
    \A r \in Requests :
        /\ pc[r] # "task_failed"
        /\ pc[r] = "done" /\ response[r].status = 200
             => idx[r] = Len(file_paths(r))

\* The request holds its voice and is writing or converting the audio.
Synthesizing(r) == pc[r] \in {"wave_open", "synthesize", "ffmpeg"}

\* The audio response of r has been sent.
Delivered(r) ==
    /\ response[r].status = 200
    /\ pc[r] \in {"background", "done", "task_failed"}

\* r has ended with one of the failures of synthesis and conversion.
TypedFailure(r) ==
    /\ pc[r] = "done"
    /\ Category(response[r]) \in {"EngineFailure", "PostProcessFailure"}

\* C18: when the engine and ffmpeg return or raise, every request that holds
\* its voice and has begun synthesis comes to a delivered audio response or
\* to a typed failure.
C18_SynthesisTerminates ==
    \A r \in Requests : Synthesizing(r) ~> (Delivered(r) \/ TypedFailure(r))

\* C18, witness: one request that began synthesis was delivered, another
\* ended with a typed failure.
C18_Witness ==
    \E r, q \in Requests :
        /\ Delivered(r)
        /\ unique_id[q] # 0
        /\ TypedFailure(q)

\* C19: the step that rejects a request with InvalidInput changes neither the
\* cache nor the model directories nor the temp files nor the unique ids
\* handed out, and a rejected request has made no resolver, download or load
\* call and holds no model path, no voice and no unique id.
C19_RejectedChangesNothing ==
    /\ [][\A r \in Requests :
            response[r] = NoResponse /\ Category(response'[r]) = "InvalidInput"
               => /\ loaded_models' = loaded_models
                  /\ assets' = assets
                  /\ tmp' = tmp
                  /\ usedIds' = usedIds
                  /\ loadCalls' = loadCalls
                  /\ nextHandle' = nextHandle]_vars
    /\ [](\A r \in Requests :
            Category(response[r]) = "InvalidInput" =>
               /\ pc[r] = "done"
               /\ calls[r] = {}
               /\ model_path[r] = NoPath
               /\ voice[r] = NoVoice
               /\ unique_id[r] = 0)

\* C19, witness: a request was rejected while a model was cached and a temp
\* file of another request was on disk.
C19_Witness ==
    \E r \in Requests :
        /\ Category(response[r]) = "InvalidInput"
        /\ loaded_models # << >>
        /\ tmp # {}
        /\ calls[r] = {}

\* The request is queued, or is at the cache check, or resolves, downloads or
\* loads its model.
BeforeHandle(r) ==
    pc[r] \in ({"pending", "check_cache", "path_exists"} \cup ResolveSteps)

\* C20: a request that has not yet got its voice, or that failed in
\* resolution, download or load, has no unique id and no temp file; every
\* temp file on disk carries the unique id of a request that holds a voice.
C20_NoTempBeforeHandle ==
    /\ \A r \in Requests :
         BeforeHandle(r) \/ failedStep[r] \in ResolveSteps =>
            /\ voice[r] = NoVoice
            /\ unique_id[r] = 0
            /\ \A i \in 1..Len(file_paths(r)) : file_paths(r)[i] \notin tmp
    /\ \A f \in tmp :
         \E q \in Requests : unique_id[q] = f[2] /\ voice[q] # NoVoice

\* C20, witness: a request failed in the load of its model and owns no temp
\* file, while the raw file of another request is on disk.
C20_Witness ==
    \E r, q \in Requests :
        /\ failedStep[r] = "load"
        /\ unique_id[r] = 0
        /\ pc[q] = "synthesize"
        /\ tmp = { OutputPath(unique_id[q]) }
====
